---- MODULE Spec2Model ----
(***************************************************************************)
(* podcast-pulse: the transcript pipeline of backend/downloader.py.        *)
(* Text is modelled as a sequence of one-character strings, so that the    *)
(* string operations of the code (strip, split, lower, slicing, replace,   *)
(* regular-expression match) are computed as the code computes them.       *)
(***************************************************************************)
EXTENDS Integers, Sequences, FiniteSets, TLC

VARIABLES
    pc,              \* position of the current call of download_audio_from_youtube
    youtube_url,     \* the reference handed to the call (as urlparse splits it)
    video_id,        \* extract_video_id(youtube_url)
    transcript_text, \* the local `text` / the text handed to summarize_text_to_json
    summary,         \* the mapping summarize_text_to_json returned
    cc_items,        \* the caption segments handed to _join
    result,          \* what the call handed to its caller
    artifacts,       \* downloads/<video_id>_summary.txt, by video id
    artifacts_before,\* history: the downloads directory when this call started
    seed_files,      \* seed/<video_id>.json, by video id (never written by the code)
    env,             \* the process environment (never written by the code)
    aai_api_key,     \* aai.settings.api_key, the speech-to-text client's global
    tmp_dirs,        \* number of pp_* directories that exist
    run_tmp,         \* the directory mkdtemp gave this call: "none", "live", "removed"
    cookie_files,    \* number of cookie files written by _cookies_file_from_env
    local_path,      \* the audio file the download returned, or "none"
    trial,           \* index into client_trials
    last_err,        \* last_err of _download_audio_to_tmp
    invoked,         \* history: the collaborators this call has used
    entered,         \* history: the stages of this call, in the order they began
    cc_text,         \* history: the joined text of the captions stage of this call
    skips,           \* history: the stages of this call that ended without success
    answers,         \* history: what the collaborators answered in this call
    prev,            \* history: reference, answers and outcome of the previous call
    runs,            \* number of calls returned
    summaries,       \* the video ids in table summaries of podcast_history.db
    response         \* what POST /download answered for the current call

pipeVars ==
    <<result, artifacts, artifacts_before, seed_files, env, aai_api_key, tmp_dirs, run_tmp,
      cookie_files, local_path, trial, last_err, invoked, entered, cc_text,
      skips, answers, prev, runs, summaries, response>>

vars == <<pc, youtube_url, video_id, transcript_text, summary, cc_items, pipeVars>>

----------------------------------------------------------------------------
(* Characters and string helpers (Python str semantics).                   *)

LowerLetters ==
    <<"a","b","c","d","e","f","g","h","i","j","k","l","m",
      "n","o","p","q","r","s","t","u","v","w","x","y","z">>

UpperLetters ==
    <<"A","B","C","D","E","F","G","H","I","J","K","L","M",
      "N","O","P","Q","R","S","T","U","V","W","X","Y","Z">>

DigitChars == {"0","1","2","3","4","5","6","7","8","9"}

Range(s) == {s[i] : i \in DOMAIN s}

\* str.lower() on one character
LowerChar(c) ==
    IF \E i \in DOMAIN UpperLetters : UpperLetters[i] = c
    THEN LowerLetters[CHOOSE i \in DOMAIN UpperLetters : UpperLetters[i] = c]
    ELSE c

\* str.lower()
Lower(s) == [i \in 1..Len(s) |-> LowerChar(s[i])]

\* s.endswith(suf)
EndsWith(s, suf) ==
    /\ Len(s) >= Len(suf)
    /\ SubSeq(s, Len(s) - Len(suf) + 1, Len(s)) = suf

\* sub in s
Contains(s, sub) ==
    \E i \in 1..(Len(s) - Len(sub) + 1) : SubSeq(s, i, i + Len(sub) - 1) = sub

\* s.strip(c) for a single character c
RECURSIVE LStrip(_, _)
LStrip(s, c) ==
    IF s # <<>> /\ Head(s) = c THEN LStrip(Tail(s), c) ELSE s

RECURSIVE RStrip(_, _)
RStrip(s, c) ==
    IF s # <<>> /\ s[Len(s)] = c THEN RStrip(SubSeq(s, 1, Len(s) - 1), c) ELSE s

Strip(s, c) == RStrip(LStrip(s, c), c)

\* s.split(c): always at least one piece, empty pieces kept
RECURSIVE Split(_, _)
Split(s, c) ==
    IF \A i \in DOMAIN s : s[i] # c
    THEN <<s>>
    ELSE LET i == CHOOSE k \in DOMAIN s : s[k] = c /\ \A j \in 1..(k - 1) : s[j] # c
         IN  <<SubSeq(s, 1, i - 1)>> \o Split(SubSeq(s, i + 1, Len(s)), c)

\* s.split(c, 1)
Split1(s, c) ==
    IF \A i \in DOMAIN s : s[i] # c
    THEN <<s>>
    ELSE LET i == CHOOSE k \in DOMAIN s : s[k] = c /\ \A j \in 1..(k - 1) : s[j] # c
         IN  <<SubSeq(s, 1, i - 1), SubSeq(s, i + 1, Len(s))>>

Last(s) == s[Len(s)]

----------------------------------------------------------------------------
(* extract_video_id                                                        *)

\* the length bound of _YT_ID_RE: {6,}
MinIdLen == 6

\* the character class of _YT_ID_RE: [A-Za-z0-9_-]
IdChars == Range(LowerLetters) \cup Range(UpperLetters) \cup DigitChars \cup {"_", "-"}

\* _YT_ID_RE.match(s)
YT_ID_RE(s) == Len(s) >= MinIdLen /\ \A i \in DOMAIN s : s[i] \in IdChars

YOUTU_BE == <<"y","o","u","t","u",".","b","e">>
YOUTUBE_COM == <<"y","o","u","t","u","b","e",".","c","o","m">>
SHORTS == <<"s","h","o","r","t","s">>
SLASH_SHORTS_SLASH == <<"/">> \o SHORTS \o <<"/">>

\* urllib.parse.parse_qs(query) for queries without percent-escapes: the
\* (name, value) pairs in order; pairs without "=" or with a blank value are
\* dropped (keep_blank_values is False).
RECURSIVE QsPairs(_)
QsPairs(fields) ==
    IF fields = <<>> THEN <<>>
    ELSE LET nv == Split1(Head(fields), "=")
         IN  (IF Len(nv) = 2 /\ nv[2] # <<>>
              THEN <<[name |-> nv[1], value |-> nv[2]]>>
              ELSE <<>>) \o QsPairs(Tail(fields))

parse_qs(query) == QsPairs(Split(query, "&"))

\* "v" in q and q["v"]
QsHas(q, name) == \E i \in DOMAIN q : q[i].name = name

\* q["v"][0]
QsFirst(q, name) ==
    q[CHOOSE i \in DOMAIN q : q[i].name = name /\ \A j \in 1..(i - 1) : q[j].name # name].value

\* `not url`: the reference is the empty string
UrlIsEmpty(url) ==
    url.scheme = <<>> /\ url.netloc = <<>> /\ url.path = <<>> /\ url.query = <<>>

extract_video_id(url) ==
    IF UrlIsEmpty(url) THEN <<>>
    ELSE
    LET host  == Lower(url.netloc)
        segs  == Split(Strip(url.path, "/"), "/")
        parts == SelectSeq(Split(url.path, "/"), LAMBDA p : p # <<>>)
        q     == parse_qs(url.query)
        last  == Last(segs)
    IN  IF EndsWith(host, YOUTU_BE) THEN segs[1]
        ELSE IF /\ Contains(host, YOUTUBE_COM)
                /\ Contains(url.path, SLASH_SHORTS_SLASH)
                /\ Len(parts) >= 2
                /\ Lower(parts[1]) = SHORTS
             THEN parts[2]
        ELSE IF Contains(host, YOUTUBE_COM) /\ QsHas(q, <<"v">>)
             THEN QsFirst(q, <<"v">>)
        ELSE IF YT_ID_RE(last) THEN last
        ELSE <<>>

----------------------------------------------------------------------------
(* References                                                              *)

HTTPS == <<"h","t","t","p","s">>
WWW_YOUTUBE_COM == <<"w","w","w",".">> \o YOUTUBE_COM
UC_YOUTUBE_COM == <<"Y","o","u","T","u","b","e",".","c","o","m">>
EXAMPLE_COM == <<"e","x","a","m","p","l","e",".","c","o","m">>

ID11 == <<"d","Q","w","4","w","9","W","g","X","c","Q">>
ID7 == <<"a","b","_","-","1","2","3">>
ID3 == <<"a","b","c">>
BADID == <<"a","b","c","!","d","e","f">>
WATCH == <<"w","a","t","c","h">>
EMBED == <<"e","m","b","e","d">>

Hosts == {<<>>, YOUTU_BE, WWW_YOUTUBE_COM, UC_YOUTUBE_COM, EXAMPLE_COM}

Paths ==
    { <<>>,
      <<"/">>,
      <<"/">> \o ID3,
      <<"/">> \o ID11,
      <<"/">> \o ID11 \o <<"/">> \o ID3,
      <<"/">> \o WATCH,
      <<"/">> \o BADID,
      <<"/">> \o EMBED \o <<"/">> \o ID7 \o <<"/">>,
      SLASH_SHORTS_SLASH,
      SLASH_SHORTS_SLASH \o ID11,
      SLASH_SHORTS_SLASH \o ID3,
      <<"/">> \o <<"S","h","o","r","t","s">> \o <<"/">> \o ID7,
      <<"/">> \o EMBED \o SLASH_SHORTS_SLASH \o ID11 }

Queries ==
    { <<>>,
      <<"v","=">>,
      <<"v","=">> \o ID11,
      <<"v","=">> \o ID3,
      <<"t","=","1","&","v","=">> \o ID7,
      <<"v","=","&","v","=">> \o BADID,
      <<"s","i","=","x","y","z">> }

Url(scheme, netloc, path, query) ==
    [scheme |-> scheme, netloc |-> netloc, path |-> path, query |-> query]

EmptyUrl == Url(<<>>, <<>>, <<>>, <<>>)

ParseRefs ==
    {EmptyUrl} \cup {Url(HTTPS, h, p, q) : h \in Hosts, p \in Paths, q \in Queries}

----------------------------------------------------------------------------
(* summarize_text_to_json                                                  *)

\* the slice bound of transcript_text.replace("\n", " ")[:1200]
MaxExcerpt == 1200

Min(a, b) == IF a <= b THEN a ELSE b

\* s.replace("\n", " ")
ReplaceNewlines(s) == [i \in 1..Len(s) |-> IF s[i] = "\n" THEN " " ELSE s[i]]

\* a slice that keeps one character too many
PrefixOffByOne(s, n) == SubSeq(s, 1, Min(Len(s), n + 1))

\* s[:n]
Prefix(s, n) == SubSeq(s, 1, Min(Len(s), n))

summarize_text_to_json(text) ==
    LET snippet == Prefix(ReplaceNewlines(text), MaxExcerpt)
    IN  [ title     |-> "Podcast Pulse - Auto Summary",
          topics    |-> <<[name |-> "Key Ideas", details |-> snippet]>>,
          quotes    |-> <<>>,
          advice    |-> <<>>,
          resources |-> <<>>,
          questions |-> <<>> ]

\* no mapping returned yet
NoSummary == [title |-> "none"]

----------------------------------------------------------------------------
(* Transcript texts                                                        *)

MaxShortLen == 3
Overrun == 2
MaxPeriod == 4

TextChars == {"a", " ", "\n"}

ShortTexts == UNION {[1..n -> TextChars] : n \in 0..MaxShortLen}

\* n characters, a newline at every k-th position
LongText(n, k) == [i \in 1..n |-> IF i % k = 0 THEN "\n" ELSE "a"]

LongTexts ==
    {LongText(n, k) : n \in (MaxExcerpt - 1)..(MaxExcerpt + Overrun),
                      k \in (1..MaxPeriod) \cup {MaxExcerpt, MaxExcerpt + 1}}

SumTexts == ShortTexts \cup LongTexts

----------------------------------------------------------------------------
(* _join                                                                   *)

Whitespace == {" ", "\n", "\t"}

\* str.strip()
RECURSIVE LStripWs(_)
LStripWs(s) == IF s # <<>> /\ Head(s) \in Whitespace THEN LStripWs(Tail(s)) ELSE s

RECURSIVE RStripWs(_)
RStripWs(s) ==
    IF s # <<>> /\ s[Len(s)] \in Whitespace
    THEN RStripWs(SubSeq(s, 1, Len(s) - 1))
    ELSE s

\* a strip that removes nothing
StripWsNone(s) == s

StripWs(s) == RStripWs(LStripWs(s))

\* sep.join(pieces)
RECURSIVE Join(_, _)
Join(pieces, sep) ==
    IF pieces = <<>> THEN <<>>
    ELSE IF Len(pieces) = 1 THEN pieces[1]
    ELSE pieces[1] \o sep \o Join(Tail(pieces), sep)

\* i.get("text", "")
GetText(i) == IF "text" \in DOMAIN i THEN i.text ELSE <<>>

\* [i.get("text", "").strip() for i in items if i.get("text")]
RECURSIVE JoinPieces(_)
JoinPieces(items) ==
    IF items = <<>> THEN <<>>
    ELSE (IF GetText(Head(items)) # <<>>
          THEN <<StripWs(GetText(Head(items)))>>
          ELSE <<>>) \o JoinPieces(Tail(items))

_join(items) == Join(JoinPieces(items), <<" ">>)

\* caption segments as the captions service returns them
Seg(text) == [text |-> text, start |-> 0, duration |-> 1]
SegNoText == [start |-> 0, duration |-> 1]

ItemsGood == <<Seg(<<"h","i">>), Seg(<<"a","\n">>)>>
\* segments whose texts are blank; their joined text is one space
ItemsBlank == <<Seg(<<" ">>), SegNoText, Seg(<<>>), Seg(<<"\n">>)>>

CaptionItems == {ItemsGood, ItemsBlank, <<>>}

----------------------------------------------------------------------------
(* _write_summary and the files the pipeline reads and writes              *)

NoFile == [file |-> "absent"]
\* the file after open(out, "w") truncated it and json.dump stopped part-way
PartialFile == [file |-> "partial"]

\* the mapping json.load returns for a well-formed seed file
SeedData == [title |-> "Seed", topics |-> <<>>]

SeedStates == {"absent", "ok", "malformed"}

\* how a write can end: completed, mkdir/open raised, json.dump raised
WriteOutcomes == {"ok", "open_raises", "dump_raises"}

ArtifactAt(arts, v) == IF v \in DOMAIN arts THEN arts[v] ELSE NoFile

\* the downloads directory after _write_summary(video_id, data) ended as w
_write_summary(arts, v, data, w) ==
    IF w = "ok" THEN (v :> data) @@ arts
    ELSE IF w = "dump_raises" THEN (v :> PartialFile) @@ arts
    ELSE arts

\* a lookup that also takes an artifact already written for a seed
SeedExistsOrCached(v) ==
    \/ v \in DOMAIN seed_files /\ seed_files[v] # "absent"
    \/ v \in DOMAIN artifacts /\ artifacts[v] # NoFile

\* seed.exists()
SeedExists(v) == v \in DOMAIN seed_files /\ seed_files[v] # "absent"

----------------------------------------------------------------------------
(* Results                                                                 *)

NoResult == [pending |-> TRUE]

Message(text, v) == [message |-> text, video_id |-> v]

\* {"error": f"<text>{detail}"}; detail is the interpolated part, "" if none
Error(text, detail) == [error |-> [text |-> text, detail |-> detail]]

\* the call ended by raising instead of returning
Raised(exc) == [raised |-> exc]

\* a check that lets every identifier through
NotVideoIdNever(v) == FALSE

\* `not video_id`
NotVideoId(v) == v = <<>>

----------------------------------------------------------------------------
(* Bounds and the references the pipeline is called with                   *)

MaxRuns == 2

\* len(client_trials)
NumClientTrials == 5

PipelineRefs ==
    { EmptyUrl,
      Url(HTTPS, YOUTU_BE, <<"/">> \o ID11, <<"s","i","=","x","y","z">>),
      Url(HTTPS, WWW_YOUTUBE_COM, <<"/">> \o WATCH, <<"v","=">> \o ID11),
      Url(HTTPS, YOUTU_BE, <<"/">> \o ID3, <<>>),
      Url(HTTPS, EXAMPLE_COM, <<"/">> \o BADID, <<>>) }

VideoIds == {extract_video_id(u) : u \in PipelineRefs} \ {<<>>}

\* the video ids a seed file may exist for
SeedIds == {ID11}

\* The environment variables of the process. The code reads no opt-in flag for
\* the audio fallback anywhere; AUDIO_FALLBACK stands for that flag, absent.
Envs ==
    [ ASSEMBLYAI_API_KEY : {"", "key"},
      YTDLP_COOKIES      : {"", "cookies"},
      AUDIO_FALLBACK     : {""} ]

\* the audio text the speech-to-text service returns
SttText == <<"o","k","\n","g","o">>

NoPrev == [none |-> TRUE]

----------------------------------------------------------------------------
(* The collaborators' answers                                              *)

\* What the captions service does in one stage: get_transcript, and after
\* NoTranscriptFound / TranscriptsDisabled list_transcripts, find_transcript
\* + fetch, and after any failure of those next(iter(...)).translate.fetch.
CaptionsAnswers ==
    {[get |-> "items", list |-> "-", find |-> "-", translate |-> "-", items |-> i] :
        i \in CaptionItems}
    \cup
    {[get |-> g, list |-> "TranscriptsDisabled", find |-> "-", translate |-> "-",
      items |-> <<>>] : g \in {"NoTranscriptFound", "TranscriptsDisabled"}}
    \cup
    {[get |-> g, list |-> "ok", find |-> "items", translate |-> "-", items |-> i] :
        g \in {"NoTranscriptFound", "TranscriptsDisabled"}, i \in CaptionItems}
    \cup
    {[get |-> g, list |-> "ok", find |-> "NoTranscriptFound", translate |-> "items",
      items |-> i] :
        g \in {"NoTranscriptFound", "TranscriptsDisabled"}, i \in CaptionItems}
    \cup
    {[get |-> g, list |-> "ok", find |-> "NoTranscriptFound",
      translate |-> "NotTranslatable", items |-> <<>>] :
        g \in {"NoTranscriptFound", "TranscriptsDisabled"}}
    \cup
    {[get |-> "CouldNotRetrieveTranscript", list |-> "-", find |-> "-",
      translate |-> "-", items |-> <<>>]}

CcItems(items) == [ok |-> TRUE, items |-> items, exc |-> "-"]
CcRaises(exc) == [ok |-> FALSE, items |-> <<>>, exc |-> exc]

\* lines 212-221: the items the stage ends up with, or the exception that
\* reaches the outer handlers
FetchCaptions(a) ==
    IF a.get = "items" THEN CcItems(a.items)
    ELSE IF a.get \in {"NoTranscriptFound", "TranscriptsDisabled"}
    THEN IF a.list # "ok" THEN CcRaises(a.list)
         ELSE IF a.find = "items" THEN CcItems(a.items)
         ELSE IF a.translate = "items" THEN CcItems(a.items)
         ELSE CcRaises(a.translate)
    ELSE CcRaises(a.get)

\* what one YoutubeDL run in the temporary directory does
TrialOutcomes == {"file", "nofile", "raises"}

\* what transcriber.transcribe does
SttAnswers ==
    { [raises |-> FALSE, status |-> "completed", text |-> SttText],
      [raises |-> FALSE, status |-> "completed", text |-> <<>>],
      [raises |-> FALSE, status |-> "error", text |-> <<>>],
      [raises |-> TRUE, status |-> "-", text |-> <<>>] }

SttOk(text) == [ok |-> TRUE, text |-> text, exc |-> "-"]
SttRaises(exc) == [ok |-> FALSE, text |-> <<>>, exc |-> exc]

\* _transcribe_with_aai after the api key was set to `key`
_transcribe_with_aai(key, a) ==
    IF key = "" THEN SttRaises("ASSEMBLYAI_API_KEY not set")
    ELSE IF a.raises THEN SttRaises("transcribe raised")
    ELSE IF a.status # "completed" \/ a.text = <<>> THEN SttRaises("AssemblyAI failed")
    ELSE SttOk(a.text)

----------------------------------------------------------------------------
(* POST /download: responses and the history table                         *)

NoResponse == [none |-> TRUE]

\* main.py line 51: the handler's return value, sent as HTTP 200
HttpOk(message, v, summary_data) ==
    [ status |-> 200, message |-> message, video_id |-> v, summary |-> summary_data ]

\* main.py lines 37 and 54: HTTPException(status_code=500, ...)
HttpError(exc) == [ status |-> 500, detail |-> exc ]

\* main.py lines 39-44: the summary file as the handler reads it; the
\* server runs in the directory of downloader.py
ReadSummary(arts, v) ==
    IF ArtifactAt(arts, v) = NoFile
    THEN [ok |-> TRUE, data |-> [error |-> "Summary file not found"], exc |-> "-"]
    ELSE IF ArtifactAt(arts, v) = PartialFile
    THEN [ok |-> FALSE, data |-> NoFile, exc |-> "JSONDecodeError"]
    ELSE [ok |-> TRUE, data |-> ArtifactAt(arts, v), exc |-> "-"]

\* main.py lines 88-89 and 48: video_id TEXT PRIMARY KEY
PrimaryKeyTaken(table, v) == v \in table

----------------------------------------------------------------------------
(* download_audio_from_youtube                                             *)

Init ==
    /\ pc = "idle"
    /\ youtube_url = EmptyUrl
    /\ video_id = <<>>
    /\ transcript_text = <<>>
    /\ summary = NoSummary
    /\ cc_items = <<>>
    /\ result = NoResult
    /\ artifacts = [v \in VideoIds |-> NoFile]
    /\ artifacts_before = artifacts
    /\ seed_files \in [SeedIds -> SeedStates]
    /\ env \in Envs
    /\ aai_api_key \in {"unset"} \cup ({env.ASSEMBLYAI_API_KEY} \ {""})
    /\ tmp_dirs = 0
    /\ run_tmp = "none"
    /\ cookie_files = 0
    /\ local_path = "none"
    /\ trial = 0
    /\ last_err = "none"
    /\ invoked = {}
    /\ entered = <<>>
    /\ cc_text = <<>>
    /\ skips = <<>>
    /\ answers = <<>>
    /\ prev = NoPrev
    /\ runs = 0
    /\ summaries = {}
    /\ response = NoResponse

\* lines 198-200
Call ==
    /\ UNCHANGED <<summaries, response>>
    /\ pc = "idle"
    /\ runs < MaxRuns
    /\ \E url \in PipelineRefs :
        /\ youtube_url' = url
        /\ video_id' = extract_video_id(url)
        /\ IF NotVideoId(extract_video_id(url))
           THEN /\ result' = Error("Invalid YouTube URL. Could not parse a video ID.", "")
                /\ pc' = "done"
           ELSE /\ result' = NoResult
                /\ pc' = "seed"
    /\ artifacts_before' = artifacts
    /\ UNCHANGED <<transcript_text, summary, cc_items, artifacts, seed_files, env, aai_api_key,
                   tmp_dirs, run_tmp, cookie_files, local_path, trial, last_err,
                   invoked, entered, cc_text, skips, answers, prev, runs>>

\* lines 203-208: nothing catches what open, json.load or _write_summary raise
SeedStage ==
    /\ UNCHANGED <<summaries, response>>
    /\ UNCHANGED cc_items
    /\ pc = "seed"
    /\ entered' = Append(entered, "seed")
    /\ IF SeedExists(video_id)
       THEN /\ pc' = "done"
            /\ IF video_id \in DOMAIN seed_files /\ seed_files[video_id] = "ok"
               THEN \E w \in WriteOutcomes :
                      /\ artifacts' = _write_summary(artifacts, video_id, SeedData, w)
                      /\ result' = IF w = "ok"
                                   THEN Message("Processed via demo seed", video_id)
                                   ELSE Raised("OSError")
                      /\ invoked' = invoked \cup {"seed", "write"}
                      /\ answers' = Append(answers, [seed |-> "ok", write |-> w])
               ELSE /\ result' =
                        IF video_id \in DOMAIN seed_files
                             /\ seed_files[video_id] = "malformed"
                        THEN Raised("JSONDecodeError")
                        ELSE Raised("FileNotFoundError")
                    /\ invoked' = invoked \cup {"seed"}
                    /\ answers' = Append(answers,
                         [ seed  |-> IF video_id \in DOMAIN seed_files
                                     THEN seed_files[video_id] ELSE "absent",
                           write |-> "-" ])
                    /\ UNCHANGED artifacts
       ELSE /\ pc' = "captions"
            /\ invoked' = invoked \cup {"seed"}
            /\ answers' = Append(answers, [seed |-> "absent", write |-> "-"])
            /\ UNCHANGED <<result, artifacts>>
    /\ UNCHANGED <<artifacts_before, youtube_url, video_id, transcript_text,
                   summary, seed_files, env, aai_api_key, tmp_dirs, run_tmp,
                   cookie_files, local_path, trial, last_err, cc_text, skips,
                   prev, runs>>

\* a captions stage that goes on to the audio stage whatever it produced
AfterCaptionsAlwaysAudio(usable, w) == "audio"

\* lines 223-232: where the call is after the captions stage: returned at
\* line 226, or at stage 2
AfterCaptions(usable, w) == IF usable /\ w = "ok" THEN "done" ELSE "audio"

\* lines 211-230: every exception of the stage, the one of _write_summary
\* included, is swallowed and the call goes on to the audio stage
CaptionsStage ==
    /\ UNCHANGED <<summaries, response>>
    /\ pc = "captions"
    /\ entered' = Append(entered, "captions")
    /\ \E a \in CaptionsAnswers, w \in WriteOutcomes :
        LET got    == FetchCaptions(a)
            text   == IF got.ok THEN _join(got.items) ELSE <<>>
            usable == got.ok /\ StripWs(text) # <<>>
        IN  /\ ~usable => w = "ok"
            /\ invoked' = invoked \cup {"captions"} \cup (IF usable THEN {"write"} ELSE {})
            /\ cc_items' = got.items
            /\ cc_text' = text
            /\ transcript_text' = IF got.ok THEN text ELSE transcript_text
            /\ summary' = IF usable THEN summarize_text_to_json(text) ELSE summary
            /\ artifacts' =
                 IF usable
                 THEN _write_summary(artifacts, video_id, summarize_text_to_json(text), w)
                 ELSE artifacts
            /\ answers' = Append(answers,
                 [ captions |-> got,
                   write    |-> IF usable THEN w ELSE "-" ])
            /\ IF usable /\ w = "ok"
               THEN /\ result' = Message("Processed via transcript", video_id)
                    /\ UNCHANGED skips
               ELSE /\ skips' = Append(skips,
                         [ stage  |-> "captions",
                           reason |-> IF ~got.ok THEN got.exc
                                      ELSE IF ~usable THEN "empty transcript"
                                      ELSE "OSError" ])
                    /\ UNCHANGED result
            /\ pc' = AfterCaptions(usable, w)
    /\ UNCHANGED <<artifacts_before, youtube_url, video_id, seed_files, env,
                   aai_api_key, tmp_dirs, run_tmp, cookie_files, local_path,
                   trial, last_err, prev, runs>>

\* lines 234-235 and 91-124: the cookie file is written, the temporary
\* directory is made; no configuration flag is read before the download
DownloadBegin ==
    /\ UNCHANGED <<summaries, response>>
    /\ UNCHANGED cc_items
    /\ pc = "audio"
    /\ entered' = Append(entered, "download")
    /\ cookie_files' = cookie_files + (IF env.YTDLP_COOKIES # "" THEN 1 ELSE 0)
    /\ tmp_dirs' = tmp_dirs + 1
    /\ run_tmp' = "live"
    /\ trial' = 1
    /\ last_err' = "none"
    /\ invoked' = invoked \cup {"download"}
    /\ pc' = "trial"
    /\ UNCHANGED <<artifacts_before, youtube_url, video_id, transcript_text,
                   summary, result, artifacts, seed_files, env, aai_api_key,
                   local_path, cc_text, skips, answers, prev, runs>>

\* lines 126-151: one entry of client_trials; trial and last_err are locals
\* of _download_audio_to_tmp and are gone once it returns
ClientTrial ==
    /\ UNCHANGED <<summaries, response>>
    /\ pc = "trial"
    /\ trial <= NumClientTrials
    /\ \E out \in TrialOutcomes :
        /\ IF out = "file"
           THEN /\ local_path' = "audio"
                /\ pc' = "transcribe"
                /\ answers' = Append(answers, [download |-> "file"])
                /\ trial' = 0
                /\ last_err' = "none"
           ELSE /\ trial' = trial + 1
                /\ last_err' = IF out = "raises" THEN "DownloadError" ELSE last_err
                /\ UNCHANGED <<local_path, pc, answers>>
    /\ invoked' = invoked \cup {"ytdlp"}
    /\ UNCHANGED <<entered, cc_items>>
    /\ UNCHANGED <<artifacts_before, youtube_url, video_id, transcript_text,
                   summary, result, artifacts, seed_files, env, aai_api_key,
                   tmp_dirs, run_tmp, cookie_files, cc_text, skips, prev,
                   runs>>

\* lines 153-177 and 236-237: the permissive attempt; without a file the
\* directory is removed and the call returns the fixed "blocked" error
FinalPermissive ==
    /\ UNCHANGED <<summaries, response>>
    /\ pc = "trial"
    /\ trial = NumClientTrials + 1
    /\ \E out \in TrialOutcomes :
        IF out = "file"
        THEN /\ local_path' = "audio"
             /\ pc' = "transcribe"
             /\ answers' = Append(answers, [download |-> "file"])
             /\ UNCHANGED <<result, tmp_dirs, run_tmp, skips>>
        ELSE /\ tmp_dirs' = tmp_dirs - 1
             /\ run_tmp' = "removed"
             /\ result' = Error("Could not download audio from YouTube (blocked). Add cookies or try another link.", "")
             /\ skips' = Append(skips,
                  [ stage  |-> "audio",
                    reason |-> IF out = "raises" THEN "final-permissive"
                               ELSE IF last_err # "none" THEN last_err
                               ELSE "Could not download audio (unknown reason)" ])
             /\ answers' = Append(answers, [download |-> "none"])
             /\ pc' = "done"
             /\ UNCHANGED local_path
    /\ trial' = 0
    /\ last_err' = "none"
    /\ invoked' = invoked \cup {"ytdlp"}
    /\ UNCHANGED <<entered, cc_items>>
    /\ UNCHANGED <<artifacts_before, youtube_url, video_id, transcript_text,
                   summary, artifacts, seed_files, env, aai_api_key,
                   cookie_files, cc_text, prev, runs>>

\* lines 238-243 and 179-188: the api key is assigned to the client's
\* global settings; nothing removes the temporary directory
TranscribeStage ==
    /\ UNCHANGED <<summaries, response>>
    /\ UNCHANGED cc_items
    /\ pc = "transcribe"
    /\ entered' = Append(entered, "transcribe")
    /\ aai_api_key' = env.ASSEMBLYAI_API_KEY
    /\ \E a \in SttAnswers, w \in WriteOutcomes :
        LET got == _transcribe_with_aai(env.ASSEMBLYAI_API_KEY, a)
        IN  /\ ~got.ok => w = "ok"
            /\ env.ASSEMBLYAI_API_KEY = "" => a.raises
            /\ invoked' = invoked \cup {"transcribe"}
                   \cup (IF env.ASSEMBLYAI_API_KEY # "" THEN {"stt"} ELSE {})
                   \cup (IF got.ok THEN {"write"} ELSE {})
            /\ transcript_text' = IF got.ok THEN got.text ELSE transcript_text
            /\ summary' = IF got.ok THEN summarize_text_to_json(got.text) ELSE summary
            /\ artifacts' =
                 IF got.ok
                 THEN _write_summary(artifacts, video_id, summarize_text_to_json(got.text), w)
                 ELSE artifacts
            /\ answers' = Append(answers,
                 [ stt   |-> got,
                   write |-> IF got.ok THEN w ELSE "-" ])
            /\ IF got.ok /\ w = "ok"
               THEN /\ result' = Message("Processed via AssemblyAI (file upload)", video_id)
                    /\ UNCHANGED skips
               ELSE /\ result' = Error("Audio fallback failed: ",
                                       IF got.ok THEN "OSError" ELSE got.exc)
                    /\ skips' = Append(skips,
                         [ stage  |-> "audio",
                           reason |-> IF got.ok THEN "OSError" ELSE got.exc ])
    /\ pc' = "done"
    /\ UNCHANGED <<artifacts_before, youtube_url, video_id, seed_files, env,
                   tmp_dirs, run_tmp, cookie_files, local_path, trial,
                   last_err, cc_text, prev, runs>>

\* main.py lines 35-54: download_podcast once the pipeline has ended. An
\* error result, an exception of the pipeline, an unreadable summary file and
\* a failed INSERT all end as HTTP 500; table summaries has video_id as its
\* PRIMARY KEY (lines 88-89), so inserting a video id it holds raises
\* sqlite3.IntegrityError.
Respond ==
    /\ pc = "done"
    /\ pc' = "responded"
    /\ IF "raised" \in DOMAIN result
       THEN /\ response' = HttpError(result.raised)
            /\ UNCHANGED summaries
       ELSE IF "error" \in DOMAIN result
       THEN /\ response' = HttpError("HTTPException")
            /\ UNCHANGED summaries
       ELSE LET r == ReadSummary(artifacts, result.video_id)
            IN  IF ~r.ok
                THEN /\ response' = HttpError(r.exc)
                     /\ UNCHANGED summaries
                ELSE IF PrimaryKeyTaken(summaries, result.video_id)
                THEN /\ response' = HttpError("IntegrityError")
                     /\ UNCHANGED summaries
                ELSE /\ summaries' = summaries \cup {result.video_id}
                     /\ response' = HttpOk(result.message, result.video_id, r.data)
    /\ UNCHANGED <<youtube_url, video_id, transcript_text, summary, cc_items,
                   result, artifacts, artifacts_before, seed_files, env,
                   aai_api_key, tmp_dirs, run_tmp, cookie_files, local_path,
                   trial, last_err, invoked, entered, cc_text, skips, answers,
                   prev, runs>>

\* the caller has the outcome; the call's locals are gone
Return ==
    /\ pc = "responded"
    /\ response' = NoResponse
    /\ UNCHANGED summaries
    /\ prev' = [ url      |-> youtube_url,
                 answers  |-> answers,
                 result   |-> result,
                 artifact |-> ArtifactAt(artifacts, video_id) ]
    /\ runs' = runs + 1
    /\ pc' = "idle"
    /\ youtube_url' = EmptyUrl
    /\ video_id' = <<>>
    /\ transcript_text' = <<>>
    /\ summary' = NoSummary
    /\ cc_items' = <<>>
    /\ result' = NoResult
    /\ run_tmp' = "none"
    /\ local_path' = "none"
    /\ trial' = 0
    /\ last_err' = "none"
    /\ invoked' = {}
    /\ entered' = <<>>
    /\ cc_text' = <<>>
    /\ skips' = <<>>
    /\ answers' = <<>>
    /\ artifacts_before' = artifacts
    /\ UNCHANGED <<artifacts, seed_files, env, aai_api_key, tmp_dirs, cookie_files>>

Next ==
    \/ Call
    \/ SeedStage
    \/ CaptionsStage
    \/ DownloadBegin
    \/ ClientTrial
    \/ FinalPermissive
    \/ TranscribeStage
    \/ Respond
    \/ Return

Spec == Init /\ [][Next]_vars

\* the pipeline at rest, for the specifications of the pure functions
PipelineIdle ==
    /\ result = NoResult
    /\ artifacts = [v \in VideoIds |-> NoFile]
    /\ artifacts_before = artifacts
    /\ seed_files = [v \in SeedIds |-> "absent"]
    /\ env = [ASSEMBLYAI_API_KEY |-> "", YTDLP_COOKIES |-> "", AUDIO_FALLBACK |-> ""]
    /\ aai_api_key = "unset"
    /\ tmp_dirs = 0
    /\ run_tmp = "none"
    /\ cookie_files = 0
    /\ local_path = "none"
    /\ trial = 0
    /\ last_err = "none"
    /\ invoked = {}
    /\ entered = <<>>
    /\ cc_text = <<>>
    /\ skips = <<>>
    /\ answers = <<>>
    /\ prev = NoPrev
    /\ runs = 0
    /\ summaries = {}
    /\ response = NoResponse

----------------------------------------------------------------------------
(* The parser on its own: one call of extract_video_id per reference.      *)

InitParse ==
    /\ pc = "parse"
    /\ youtube_url \in ParseRefs
    /\ video_id = <<>>
    /\ transcript_text = <<>>
    /\ summary = NoSummary
    /\ cc_items = <<>>
    /\ PipelineIdle

Parse ==
    /\ pc = "parse"
    /\ video_id' = extract_video_id(youtube_url)
    /\ pc' = "parsed"
    /\ UNCHANGED <<youtube_url, transcript_text, summary, cc_items, pipeVars>>

NextParse == Parse

SpecParse == InitParse /\ [][NextParse]_vars

----------------------------------------------------------------------------
(* The summary stage on its own: one call per transcript text.             *)

InitSum ==
    /\ pc = "summarize"
    /\ youtube_url = EmptyUrl
    /\ video_id = <<>>
    /\ transcript_text \in SumTexts
    /\ summary = NoSummary
    /\ cc_items = <<>>
    /\ PipelineIdle

Summarize ==
    /\ pc = "summarize"
    /\ summary' = summarize_text_to_json(transcript_text)
    /\ pc' = "summarized"
    /\ UNCHANGED <<youtube_url, video_id, transcript_text, cc_items, pipeVars>>

NextSum == Summarize

SpecSum == InitSum /\ [][NextSum]_vars

----------------------------------------------------------------------------
(* _join on its own: one call per sequence of caption segments.            *)

MaxItems == 3

\* the segments tried: no text field, an empty text, a blank text, a plain
\* text, a text with whitespace around it
JoinSegs ==
    {SegNoText, Seg(<<>>), Seg(<<" ">>), Seg(<<"a">>), Seg(<<" ","b","\n">>)}

JoinInputs == UNION {[1..n -> JoinSegs] : n \in 0..MaxItems}

InitJoin ==
    /\ pc = "join"
    /\ youtube_url = EmptyUrl
    /\ video_id = <<>>
    /\ transcript_text = <<>>
    /\ summary = NoSummary
    /\ cc_items \in JoinInputs
    /\ PipelineIdle

CallJoin ==
    /\ pc = "join"
    /\ transcript_text' = _join(cc_items)
    /\ pc' = "joined"
    /\ UNCHANGED <<youtube_url, video_id, summary, cc_items, pipeVars>>

NextJoin == CallJoin

SpecJoin == InitJoin /\ [][NextJoin]_vars

----------------------------------------------------------------------------
(* Properties                                                              *)

AudioCalls == {"download", "ytdlp", "transcribe", "stt"}

\* C1: once an earlier stage has succeeded (a seed file was found, or the
\* captions stage joined a non-empty text), no later stage is invoked in
\* that call, and a call whose captions stage joined a non-empty text returns
\* the captions stage's success result.
C1_NoStageAfterSuccess ==
    /\ (SeedExists(video_id) /\ "seed" \in invoked)
          => invoked \cap ({"captions"} \cup AudioCalls) = {}
    /\ StripWs(cc_text) # <<>> => invoked \cap AudioCalls = {}
    /\ (pc = "done" /\ StripWs(cc_text) # <<>>)
          => result = Message("Processed via transcript", video_id)

\* the reasons an error result's message carries
Mentions(r) == {r.error.detail} \ {""}

\* C2: when the captions stage and the audio stage were both skipped, the
\* error result's message carries the reason of every skipped stage.
C2_FailureListsReasons ==
    (pc = "done" /\ "error" \in DOMAIN result /\ Len(skips) = 2)
        => \A i \in DOMAIN skips : skips[i].reason \in Mentions(result)

\* C3: when the call has returned, the temporary directory it made no longer
\* exists.
C3_TmpDirRemoved == pc = "done" => run_tmp # "live"

\* C4: every call ends by returning a mapping with an "error" or a "message"
\* key; none ends by raising.
C4_AlwaysResultMapping ==
    pc = "done" => ("error" \in DOMAIN result \/ "message" \in DOMAIN result)

\* C5: a call whose reference yields the empty identifier returns the error
\* result at once: no seed lookup, captions request, download, speech-to-text
\* call or artifact write happens in it.
C5_EmptyIdStopsCall ==
    (pc # "idle" /\ video_id = <<>>)
        => /\ pc \in {"done", "responded"}
           /\ result = Error("Invalid YouTube URL. Could not parse a video ID.", "")
           /\ invoked = {}
           /\ artifacts = artifacts_before

C5_Witness ==
    /\ pc = "done"
    /\ video_id = <<>>
    /\ youtube_url.netloc = EXAMPLE_COM
    /\ runs = 1
    /\ \E v \in VideoIds : artifacts[v] # NoFile

\* C6: extract_video_id returns the empty string or an identifier of at least
\* 6 characters from letters, digits, "_" and "-".
C6_IdWellFormed == pc = "parsed" => (video_id = <<>> \/ YT_ID_RE(video_id))

\* C7: no step of a call writes the speech-to-text client's global api key.
C7_GlobalKeyNeverWritten == [][aai_api_key' = aai_api_key]_vars

\* C8: with the opt-in flag of the audio fallback absent from the
\* configuration, no call downloads media or submits to speech-to-text.
C8_NoDownloadWithoutOptIn ==
    env.AUDIO_FALLBACK = "" => invoked \cap AudioCalls = {}

\* the parts of C9 that do not depend on the name of the sixth key
SummaryBody(s, text) ==
    /\ Len(s.topics) = 1
    /\ Len(s.topics[1].details) = Min(Len(text), MaxExcerpt)
    /\ \A i \in 1..Len(s.topics[1].details) :
          s.topics[1].details[i] = (IF text[i] = "\n" THEN " " ELSE text[i])
    /\ s.quotes = <<>>
    /\ s.advice = <<>>
    /\ s.resources = <<>>

\* C9 (as claimed): the mapping's keys are exactly title, topics, quotes,
\* advice, resources and key_questions; topics holds one entry with the input,
\* newlines replaced by spaces, cut to 1200 characters; the other four
\* collections are empty.
C9_KeysAsClaimed ==
    pc = "summarized"
        => /\ DOMAIN summary =
                {"title", "topics", "quotes", "advice", "resources", "key_questions"}
           /\ SummaryBody(summary, transcript_text)
           /\ summary.key_questions = <<>>

\* C9 (amended): the mapping's keys are exactly title, topics, quotes, advice,
\* resources and questions; topics holds one entry whose details are the
\* input, newlines replaced by spaces, cut to 1200 characters; the other
\* four collections are empty.
C9_SummaryShape ==
    pc = "summarized"
        => /\ DOMAIN summary =
                {"title", "topics", "quotes", "advice", "resources", "questions"}
           /\ SummaryBody(summary, transcript_text)
           /\ summary.questions = <<>>

C9_Witness ==
    /\ pc = "summarized"
    /\ Len(transcript_text) > MaxExcerpt
    /\ transcript_text[MaxExcerpt] = "\n"
    /\ Len(summary.topics[1].details) = MaxExcerpt

\* the collaborators answered alike: whatever both calls asked of the same
\* collaborator got the same answer
SameAnswers(a, b) ==
    \A i \in DOMAIN a, j \in DOMAIN b : DOMAIN a[i] = DOMAIN b[j] => a[i] = b[j]

\* C10: a call with the same reference as the previous call, in which every
\* collaborator answered as in the previous call, ends with the same result
\* and the same artifact content as the previous call.
C10_SecondCallSame ==
    (pc = "done" /\ prev # NoPrev /\ prev.url = youtube_url
                 /\ SameAnswers(prev.answers, answers))
        => /\ result = prev.result
           /\ ArtifactAt(artifacts, video_id) = prev.artifact

C10_Witness ==
    /\ pc = "done"
    /\ prev # NoPrev
    /\ prev.url = youtube_url
    /\ SameAnswers(prev.answers, answers)
    /\ Len(answers) = Len(prev.answers)
    /\ result = Message("Processed via AssemblyAI (file upload)", video_id)
    /\ tmp_dirs = 2
    /\ aai_api_key = "key"

\* the stages of one call in the order of the source
StageOrder == <<"seed", "captions", "download", "transcribe">>

\* C11: within one call the stages begin in the order seed lookup, captions,
\* audio download, speech-to-text, each at most once and each only after the
\* one before it has ended: while the download is trying clients no later
\* stage has begun, speech-to-text begins only with the downloaded file, and
\* the download begins only if the captions stage gave no success.
C11_StagesInOrder ==
    /\ Len(entered) <= Len(StageOrder)
    /\ \A i \in DOMAIN entered : entered[i] = StageOrder[i]
    /\ pc = "trial" => Last(entered) = "download"
    /\ (entered # <<>> /\ Last(entered) = "transcribe") => local_path = "audio"
    /\ (entered # <<>> /\ Last(entered) \in {"download", "transcribe"})
          => \E i \in DOMAIN answers :
                /\ "captions" \in DOMAIN answers[i]
                /\ answers[i].write # "ok"
                /\ \A j \in 1..i : "download" \notin DOMAIN answers[j]

C11_Witness ==
    /\ pc = "done"
    /\ entered = StageOrder
    /\ "message" \in DOMAIN result

\* the text has nothing but whitespace in it
Blank(text) == \A i \in DOMAIN text : text[i] \in Whitespace

\* C12: a captions stage whose service returned segments, but whose joined
\* text is blank, is skipped: it writes no artifact, returns no result, and
\* the call goes on to the audio stage.
C12_BlankCaptionsSkipped ==
    [][ ( /\ pc = "captions"
          /\ Last(answers').captions.ok
          /\ Last(answers').captions.items # <<>>
          /\ Blank(cc_text') )
        => /\ pc' = "audio"
           /\ artifacts' = artifacts
           /\ result' = NoResult
           /\ "write" \notin invoked'
           /\ skips' = Append(skips, [stage |-> "captions", reason |-> "empty transcript"])
      ]_vars

C12_Witness ==
    /\ pc = "audio"
    /\ Last(answers).captions.ok
    /\ Last(answers).captions.items # <<>>
    /\ cc_text # <<>>
    /\ Blank(cc_text)
    /\ artifacts = artifacts_before

\* the trimmed texts of the segments whose trimmed text is not empty
RECURSIVE TrimmedNonEmpty(_)
TrimmedNonEmpty(segs) ==
    IF segs = <<>> THEN <<>>
    ELSE (IF StripWs(GetText(Head(segs))) # <<>>
          THEN <<StripWs(GetText(Head(segs)))>>
          ELSE <<>>) \o TrimmedNonEmpty(Tail(segs))

\* C13: _join returns the trimmed texts of exactly the segments whose
\* trimmed text is not empty, in order, with one space between them.
C13_JoinTrimmedNonEmpty ==
    pc = "joined" => transcript_text = Join(TrimmedNonEmpty(cc_items), <<" ">>)

\* the non-empty segments of a path
PathSegments(path) == SelectSeq(Split(path, "/"), LAMBDA p : p # <<>>)

\* C14: for a reference on the canonical domain whose path has a "shorts"
\* segment, at any position, with a segment after it, extract_video_id
\* returns the segment after "shorts", whatever the query's v parameter and
\* the last segment are.
C14_ShortsAnywhere ==
    (pc = "parsed" /\ Lower(youtube_url.netloc) \in {YOUTUBE_COM, WWW_YOUTUBE_COM})
        => \A i \in DOMAIN PathSegments(youtube_url.path) :
              ( /\ PathSegments(youtube_url.path)[i] = SHORTS
                /\ i < Len(PathSegments(youtube_url.path))
                /\ \A j \in 1..(i - 1) : PathSegments(youtube_url.path)[j] # SHORTS )
              => video_id = PathSegments(youtube_url.path)[i + 1]

\* C15: every request whose pipeline call returned a success result is
\* answered with a success response (message, video_id, summary), and table
\* summaries then holds its video id; also when an earlier request already
\* processed that video id.
C15_SuccessIsAnswered ==
    (pc = "responded" /\ "message" \in DOMAIN result)
        => /\ response.status = 200
           /\ response.message = result.message
           /\ response.video_id = result.video_id
           /\ "summary" \in DOMAIN response
           /\ result.video_id \in summaries

\* the stage a success message names, as the key of its entry in answers
StageNamed(message) ==
    IF message = "Processed via demo seed" THEN "seed"
    ELSE IF message = "Processed via transcript" THEN "captions"
    ELSE "stt"

\* the entries of answers in which _write_summary ran to its end
CompleteWrites == {i \in DOMAIN answers :
                     "write" \in DOMAIN answers[i] /\ answers[i].write = "ok"}

\* C16: the result and the artifact agree. A result with "message" means
\* the artifact of its video id was completely written exactly once in this
\* call, by the stage the message names; a result with "error" means no
\* artifact file was created or modified in this call.
C16_ResultMatchesArtifact ==
    pc = "done" =>
        /\ "message" \in DOMAIN result
              => /\ ArtifactAt(artifacts, result.video_id) \notin {NoFile, PartialFile}
                 /\ Cardinality(CompleteWrites) = 1
                 /\ \A i \in CompleteWrites :
                        StageNamed(result.message) \in DOMAIN answers[i]
        /\ "error" \in DOMAIN result => artifacts = artifacts_before

====
